---- MODULE Spec2Model ----
(***************************************************************************)
(* A model of the `bag` crate: an unordered multiset kept as a hash map    *)
(* from element to occurrence count.  Two variants of the type live in the *)
(* repository: src/lib.rs (put, is_empty, occurrence by reference) and     *)
(* src/bag/mod.rs (insert, iter, bigram!).  Both are modelled; the         *)
(* variable `variant` says which one a behaviour exercises.                *)
(*                                                                         *)
(* A HashMap<E, usize> is a function whose DOMAIN is the set of stored     *)
(* keys.  Counts are usize values: additions are done modulo 2^UsizeBits   *)
(* and, when the build has overflow checks (the debug profile), an         *)
(* overflowing addition panics instead of wrapping.                        *)
(***************************************************************************)
EXTENDS Integers, Sequences, FiniteSets, TLC

VARIABLES
    variant,          \* "lib" (src/lib.rs) or "bag_mod" (src/bag/mod.rs)
    overflow_checks,  \* TRUE: overflow panics (debug); FALSE: it wraps (release)
    bags,             \* bags[i]: the HashMap of bag i, a function key -> count
    puts,             \* ghost: puts[i][e] = number of put/insert calls of e on bag i
    calls,            \* ghost: number of put/insert calls made on bag i in this run
    ret,              \* the last call and what it returned
    panicked,         \* a call panicked (arithmetic overflow in a checked build)
    vec,              \* bigram!: the vector built from the macro's items
    win,              \* bigram!: index of the next window of vec.windows(2)
    bigram_bag,       \* bigram!: the bag of pairs under construction
    pc                \* bigram!: "idle", "call", "loop" or "done"

vars == <<variant, overflow_checks, bags, puts, calls, ret, panicked,
          vec, win, bigram_bag, pc>>

bag_vars == <<bags, puts, calls, ret, panicked>>
bigram_vars == <<vec, win, bigram_bag, pc>>

----------------------------------------------------------------------------
(* Bounds of the model. *)

MaxPuts == 3          \* put/insert calls made on one bag in a run
MaxVec == 4           \* length of the enumerated bigram! inputs

Elems == {"a", "b", "c"}
BagIds == {1, 2}
Variants == {"lib", "bag_mod"}

----------------------------------------------------------------------------
(* usize arithmetic. *)

\* The width of usize.  16 is the narrowest pointer width Rust supports;
\* the arithmetic is the same at 32 and 64 bits.
UsizeBits == 16
USIZE_MAX == 2^UsizeBits - 1

\* a + b on usize: the wrapped value, and whether a checked build panics.
add_usize(a, b, checks) ==
    [val |-> (a + b) % (USIZE_MAX + 1), panic |-> checks /\ a + b > USIZE_MAX]

----------------------------------------------------------------------------
(* HashMap iteration.  The order in which a HashMap yields its entries is  *)
(* unspecified: Orders(S) is every order in which the keys S can come,     *)
(* each key exactly once.                                                  *)

Orders(S) ==
    {o \in [1..Cardinality(S) -> S] : \A j, k \in 1..Cardinality(S) : o[j] = o[k] => j = k}

\* the key a HashMap iterator over the keys S yields first (some key of S)
first_key(S) == CHOOSE k \in S : TRUE

\* Iterator::sum / Iterator::fold(0, |a, b| a + b) over self.0.values():
\* the values of the keys S still to visit are added to acc one by one
RECURSIVE fold_add(_, _, _, _)
fold_add(m, S, acc, checks) ==
    IF S = {} THEN [val |-> acc, panic |-> FALSE]
    ELSE LET k == first_key(S)
             s == add_usize(acc, m[k], checks)
         IN  IF s.panic THEN [val |-> acc, panic |-> TRUE]
             ELSE fold_add(m, S \ {k}, s.val, checks)

----------------------------------------------------------------------------
(* src/lib.rs *)

new == [k \in {} |-> 0]

len_keys(m, checks) == [val |-> Cardinality(DOMAIN m), panic |-> FALSE]

len(m, checks) == fold_add(m, DOMAIN m, 0, checks)

is_empty_one(m, checks) ==
    LET l == len(m, checks) IN [val |-> l.val <= 1, panic |-> l.panic]

is_empty(m, checks) ==
    LET l == len(m, checks) IN [val |-> l.val = 0, panic |-> l.panic]

put_no_incr(m, elem, checks) ==
    IF elem \notin DOMAIN m
    THEN [map |-> m @@ (elem :> 1), panic |-> FALSE]
    ELSE [map |-> m, panic |-> FALSE]

put_zero(m, elem, checks) ==
    IF elem \notin DOMAIN m
    THEN [map |-> m @@ (elem :> 0), panic |-> FALSE]
    ELSE LET s == add_usize(m[elem], 1, checks)
         IN  [map |-> IF s.panic THEN m ELSE [m EXCEPT ![elem] = s.val],
              panic |-> s.panic]

put_reset(m, elem, checks) ==
    IF elem \notin DOMAIN m
    THEN [map |-> (elem :> 1), panic |-> FALSE]
    ELSE LET s == add_usize(m[elem], 1, checks)
         IN  [map |-> IF s.panic THEN m ELSE [m EXCEPT ![elem] = s.val],
              panic |-> s.panic]

put(m, elem, checks) ==
    IF elem \notin DOMAIN m
    THEN [map |-> m @@ (elem :> 1), panic |-> FALSE]                  \* Vacant
    ELSE LET s == add_usize(m[elem], 1, checks)                       \* Occupied
         IN  [map |-> IF s.panic THEN m ELSE [m EXCEPT ![elem] = s.val],
              panic |-> s.panic]

occurrence_one(m, elem) == IF elem \in DOMAIN m THEN m[elem] ELSE 1

occurrence(m, elem) == IF elem \in DOMAIN m THEN m[elem] ELSE 0

\* self.0.iter(), yielding in order o
frequency(m, o) == [j \in 1..Len(o) |-> <<o[j], m[o[j]]>>]

distinct_dup(m, o) == [j \in 1..Len(o) |-> o[1]]

\* self.0.keys(), yielding in order o
distinct(m, o) == [j \in 1..Len(o) |-> o[j]]

eq_keys(m1, m2) == DOMAIN m1 = DOMAIN m2

\* derive(PartialEq) on Bag(HashMap): HashMap's eq, same number of entries
\* and every entry of the one found with the same value in the other
eq(m1, m2) ==
    /\ Cardinality(DOMAIN m1) = Cardinality(DOMAIN m2)
    /\ \A k \in DOMAIN m1 : k \in DOMAIN m2 /\ m1[k] = m2[k]

----------------------------------------------------------------------------
(* src/bag/mod.rs *)

bag_new == [k \in {} |-> 0]

bag_len(m, checks) == fold_add(m, DOMAIN m, 0, checks)

bag_occurrence(m, elem) == IF elem \in DOMAIN m THEN m[elem] ELSE 0

insert(m, elem, checks) ==
    IF elem \notin DOMAIN m
    THEN [map |-> m @@ (elem :> 1), panic |-> FALSE]                  \* Vacant
    ELSE LET s == add_usize(m[elem], 1, checks)                       \* Occupied
         IN  [map |-> IF s.panic THEN m ELSE [m EXCEPT ![elem] = s.val],
              panic |-> s.panic]

bag_frequency(m, o) == [j \in 1..Len(o) |-> <<o[j], m[o[j]]>>]

iter(m, o) == bag_frequency(m, o)

bag_distinct(m, o) == [j \in 1..Len(o) |-> o[j]]

bag_eq(m1, m2) ==
    /\ Cardinality(DOMAIN m1) = Cardinality(DOMAIN m2)
    /\ \A k \in DOMAIN m1 : k \in DOMAIN m2 /\ m1[k] = m2[k]

\* vec.windows(2)
windows_swapped(v) ==
    [j \in 1..(IF Len(v) >= 2 THEN Len(v) - 1 ELSE 0) |-> <<v[j + 1], v[j]>>]

windows(v) ==
    [j \in 1..(IF Len(v) >= 2 THEN Len(v) - 1 ELSE 0) |-> <<v[j], v[j + 1]>>]

----------------------------------------------------------------------------
(* The state after construction: two empty bags. *)

Unit == "unit"
NoArg == "-"

Init ==
    /\ variant \in Variants
    /\ overflow_checks \in BOOLEAN
    /\ bags = [i \in BagIds |-> IF variant = "lib" THEN new ELSE bag_new]
    /\ puts = [i \in BagIds |-> [e \in Elems |-> 0]]
    /\ calls = [i \in BagIds |-> 0]
    /\ ret = [op |-> "new", bag |-> 0, arg |-> NoArg, val |-> Unit]
    /\ panicked = FALSE
    /\ vec = <<>>
    /\ win = 0
    /\ bigram_bag = bag_new
    /\ pc = "idle"

----------------------------------------------------------------------------
(* Calls on the src/lib.rs bag. *)

Put(i, e) ==
    /\ variant = "lib" /\ ~panicked /\ pc = "idle"
    /\ calls[i] < MaxPuts
    /\ LET r == put(bags[i], e, overflow_checks)
       IN  /\ bags' = [bags EXCEPT ![i] = r.map]
           /\ panicked' = r.panic
    /\ puts' = [puts EXCEPT ![i][e] = @ + 1]
    /\ calls' = [calls EXCEPT ![i] = @ + 1]
    /\ ret' = [op |-> "put", bag |-> i, arg |-> e, val |-> Unit]
    /\ UNCHANGED <<variant, overflow_checks, bigram_vars>>

CallLen(i) ==
    /\ variant = "lib" /\ ~panicked /\ pc = "idle"
    /\ LET l == len(bags[i], overflow_checks)
       IN  /\ ret' = [op |-> "len", bag |-> i, arg |-> NoArg, val |-> l.val]
           /\ panicked' = l.panic
    /\ UNCHANGED <<variant, overflow_checks, bags, puts, calls, bigram_vars>>

CallIsEmpty(i) ==
    /\ variant = "lib" /\ ~panicked /\ pc = "idle"
    /\ LET r == is_empty(bags[i], overflow_checks)
       IN  /\ ret' = [op |-> "is_empty", bag |-> i, arg |-> NoArg, val |-> r.val]
           /\ panicked' = r.panic
    /\ UNCHANGED <<variant, overflow_checks, bags, puts, calls, bigram_vars>>

CallOccurrence(i, e) ==
    /\ variant = "lib" /\ ~panicked /\ pc = "idle"
    /\ ret' = [op |-> "occurrence", bag |-> i, arg |-> e, val |-> occurrence(bags[i], e)]
    /\ UNCHANGED <<variant, overflow_checks, bags, puts, calls, panicked, bigram_vars>>

CallFrequency(i) ==
    /\ variant = "lib" /\ ~panicked /\ pc = "idle"
    /\ \E o \in Orders(DOMAIN bags[i]) :
         ret' = [op |-> "frequency", bag |-> i, arg |-> NoArg, val |-> frequency(bags[i], o)]
    /\ UNCHANGED <<variant, overflow_checks, bags, puts, calls, panicked, bigram_vars>>

CallDistinct(i) ==
    /\ variant = "lib" /\ ~panicked /\ pc = "idle"
    /\ \E o \in Orders(DOMAIN bags[i]) :
         ret' = [op |-> "distinct", bag |-> i, arg |-> NoArg, val |-> distinct(bags[i], o)]
    /\ UNCHANGED <<variant, overflow_checks, bags, puts, calls, panicked, bigram_vars>>

CallEq(i, j) ==
    /\ variant = "lib" /\ ~panicked /\ pc = "idle"
    /\ ret' = [op |-> "eq", bag |-> i, arg |-> j, val |-> eq(bags[i], bags[j])]
    /\ UNCHANGED <<variant, overflow_checks, bags, puts, calls, panicked, bigram_vars>>

----------------------------------------------------------------------------
(* Calls on the src/bag/mod.rs bag. *)

Insert(i, e) ==
    /\ variant = "bag_mod" /\ ~panicked /\ pc = "idle"
    /\ calls[i] < MaxPuts
    /\ LET r == insert(bags[i], e, overflow_checks)
       IN  /\ bags' = [bags EXCEPT ![i] = r.map]
           /\ panicked' = r.panic
    /\ puts' = [puts EXCEPT ![i][e] = @ + 1]
    /\ calls' = [calls EXCEPT ![i] = @ + 1]
    /\ ret' = [op |-> "insert", bag |-> i, arg |-> e, val |-> Unit]
    /\ UNCHANGED <<variant, overflow_checks, bigram_vars>>

BagLen(i) ==
    /\ variant = "bag_mod" /\ ~panicked /\ pc = "idle"
    /\ LET l == bag_len(bags[i], overflow_checks)
       IN  /\ ret' = [op |-> "len", bag |-> i, arg |-> NoArg, val |-> l.val]
           /\ panicked' = l.panic
    /\ UNCHANGED <<variant, overflow_checks, bags, puts, calls, bigram_vars>>

BagOccurrence(i, e) ==
    /\ variant = "bag_mod" /\ ~panicked /\ pc = "idle"
    /\ ret' = [op |-> "occurrence", bag |-> i, arg |-> e, val |-> bag_occurrence(bags[i], e)]
    /\ UNCHANGED <<variant, overflow_checks, bags, puts, calls, panicked, bigram_vars>>

BagIter(i) ==
    /\ variant = "bag_mod" /\ ~panicked /\ pc = "idle"
    /\ \E o \in Orders(DOMAIN bags[i]) :
         ret' = [op |-> "iter", bag |-> i, arg |-> NoArg, val |-> iter(bags[i], o)]
    /\ UNCHANGED <<variant, overflow_checks, bags, puts, calls, panicked, bigram_vars>>

BagDistinct(i) ==
    /\ variant = "bag_mod" /\ ~panicked /\ pc = "idle"
    /\ \E o \in Orders(DOMAIN bags[i]) :
         ret' = [op |-> "distinct", bag |-> i, arg |-> NoArg, val |-> bag_distinct(bags[i], o)]
    /\ UNCHANGED <<variant, overflow_checks, bags, puts, calls, panicked, bigram_vars>>

BagEq(i, j) ==
    /\ variant = "bag_mod" /\ ~panicked /\ pc = "idle"
    /\ ret' = [op |-> "eq", bag |-> i, arg |-> j, val |-> bag_eq(bags[i], bags[j])]
    /\ UNCHANGED <<variant, overflow_checks, bags, puts, calls, panicked, bigram_vars>>

----------------------------------------------------------------------------

Next ==
    \/ \E i \in BagIds, e \in Elems : Put(i, e)
    \/ \E i \in BagIds : CallLen(i)
    \/ \E i \in BagIds : CallIsEmpty(i)
    \/ \E i \in BagIds, e \in Elems : CallOccurrence(i, e)
    \/ \E i \in BagIds : CallFrequency(i)
    \/ \E i \in BagIds : CallDistinct(i)
    \/ \E i, j \in BagIds : CallEq(i, j)
    \/ \E i \in BagIds, e \in Elems : Insert(i, e)
    \/ \E i \in BagIds : BagLen(i)
    \/ \E i \in BagIds, e \in Elems : BagOccurrence(i, e)
    \/ \E i \in BagIds : BagIter(i)
    \/ \E i \in BagIds : BagDistinct(i)
    \/ \E i, j \in BagIds : BagEq(i, j)

Spec == Init /\ [][Next]_vars

----------------------------------------------------------------------------
(* bigram!( items ) of src/bag/mod.rs, one step per iteration of its loop. *)

BigramElems == {"a", "b", "r"}

Abracadabra == <<"a", "b", "r", "a", "c", "a", "d", "a", "b", "r", "a">>

\* the item lists the macro is applied to: every list over BigramElems of
\* at most MaxVec items, and the list of the crate's test
BigramInputs ==
    UNION {[1..n -> BigramElems] : n \in 0..MaxVec} \cup {Abracadabra}

InitBigram ==
    /\ variant = "bag_mod"
    /\ overflow_checks \in BOOLEAN
    /\ bags = [i \in BagIds |-> bag_new]
    /\ puts = [i \in BagIds |-> [e \in Elems |-> 0]]
    /\ calls = [i \in BagIds |-> 0]
    /\ ret = [op |-> "new", bag |-> 0, arg |-> NoArg, val |-> Unit]
    /\ panicked = FALSE
    /\ vec \in BigramInputs
    /\ win = 0
    /\ bigram_bag = bag_new
    /\ pc = "call"

\* the arm `() => { $crate::Bag::new() }`
BigramEmpty ==
    /\ pc = "call" /\ vec = <<>>
    /\ bigram_bag' = bag_new
    /\ pc' = "done"
    /\ UNCHANGED <<variant, overflow_checks, bag_vars, vec, win>>

\* the arm with items: `let mut bag = Bag::new(); let vec = vec![...]`
BigramEnter ==
    /\ pc = "call" /\ vec # <<>>
    /\ bigram_bag' = bag_new
    /\ win' = 1
    /\ pc' = "loop"
    /\ UNCHANGED <<variant, overflow_checks, bag_vars, vec>>

\* one iteration of `for w in vec.windows(2) { bag.insert((w[0], w[1])) }`
BigramInsert ==
    /\ pc = "loop" /\ ~panicked
    /\ win <= Len(windows(vec))
    /\ LET w == windows(vec)[win]
           r == insert(bigram_bag, <<w[1], w[2]>>, overflow_checks)
       IN  /\ bigram_bag' = r.map
           /\ panicked' = r.panic
    /\ win' = win + 1
    /\ UNCHANGED <<variant, overflow_checks, bags, puts, calls, ret, vec, pc>>

\* the windows are exhausted: the macro's block evaluates to `bag`
BigramReturn ==
    /\ pc = "loop" /\ ~panicked
    /\ win > Len(windows(vec))
    /\ pc' = "done"
    /\ UNCHANGED <<variant, overflow_checks, bag_vars, vec, win, bigram_bag>>

NextBigram == BigramEmpty \/ BigramEnter \/ BigramInsert \/ BigramReturn

SpecBigram == InitBigram /\ [][NextBigram]_vars

----------------------------------------------------------------------------
(* Bags whose counts are near the top of usize.  A count c is what c       *)
(* put/insert calls of the element leave, so each of these bags is one the *)
(* program reaches from new(); the run goes on from there.                 *)

\* the sum of f over S, as an unbounded integer
RECURSIVE SumOver(_, _)
SumOver(f, S) ==
    IF S = {} THEN 0
    ELSE LET x == CHOOSE x \in S : TRUE IN f[x] + SumOver(f, S \ {x})

HalfUsize == 2^(UsizeBits - 1)

NearLimitCounts == {0, 1, HalfUsize - 1, USIZE_MAX - 1}

\* the mapping holding e with count c[e], for the e with c[e] > 0
map_of(c) == [e \in {x \in Elems : c[x] > 0} |-> c[e]]

InitOverflow ==
    /\ variant \in Variants
    /\ overflow_checks \in BOOLEAN
    /\ \E c \in [Elems -> NearLimitCounts] :
          /\ SumOver(c, Elems) <= USIZE_MAX
          /\ bags = [i \in BagIds |-> IF i = 1 THEN map_of(c) ELSE map_of([e \in Elems |-> 0])]
          /\ puts = [i \in BagIds |-> IF i = 1 THEN c ELSE [e \in Elems |-> 0]]
    /\ calls = [i \in BagIds |-> 0]
    /\ ret = [op |-> "new", bag |-> 0, arg |-> NoArg, val |-> Unit]
    /\ panicked = FALSE
    /\ vec = <<>>
    /\ win = 0
    /\ bigram_bag = bag_new
    /\ pc = "idle"

NextOverflow ==
    \/ \E e \in Elems : Put(1, e)
    \/ CallLen(1)
    \/ CallIsEmpty(1)
    \/ \E e \in Elems : CallOccurrence(1, e)
    \/ \E e \in Elems : Insert(1, e)
    \/ BagLen(1)
    \/ \E e \in Elems : BagOccurrence(1, e)

SpecOverflow == InitOverflow /\ [][NextOverflow]_vars

----------------------------------------------------------------------------
(* What the claims speak of, in either variant. *)

Occ(i, e) ==
    IF variant = "lib" THEN occurrence(bags[i], e) ELSE bag_occurrence(bags[i], e)

LenOf(i) ==
    IF variant = "lib" THEN len(bags[i], overflow_checks)
    ELSE bag_len(bags[i], overflow_checks)

Freq(i, o) ==
    IF variant = "lib" THEN frequency(bags[i], o) ELSE iter(bags[i], o)

Dist(i, o) ==
    IF variant = "lib" THEN distinct(bags[i], o) ELSE bag_distinct(bags[i], o)

Equal(i, j) ==
    IF variant = "lib" THEN eq(bags[i], bags[j]) ELSE bag_eq(bags[i], bags[j])

\* the number of put/insert calls bag i has received since new()
TotalPuts(i) == SumOver(puts[i], Elems)

\* the step is a put/insert of e on bag i
IsInsertOf(i, e) == puts'[i][e] = puts[i][e] + 1

InsertOps == {"put", "insert"}

----------------------------------------------------------------------------
(* C1: a put(e) / insert(e) makes occurrence(e) exactly one greater than   *)
(* it was before the call; an absent e becomes present with count 1.       *)
C1_InsertIncrementsOccurrence ==
    [][\A i \in BagIds, e \in Elems :
         IsInsertOf(i, e) =>
            /\ Occ(i, e)' = Occ(i, e) + 1
            /\ Occ(i, e) = 0 => (e \in DOMAIN bags'[i] /\ bags'[i][e] = 1)]_vars

\* a put/insert of an element that was already present has acted
C1_Witness ==
    /\ ret.op \in InsertOps
    /\ Occ(ret.bag, ret.arg) = 2
    /\ puts[ret.bag][ret.arg] = 2

(* C2: after n put/insert calls on a bag that started empty, whatever the  *)
(* repetition among the elements, len() returns n (0 for the empty bag);   *)
(* every len() call returned that number.                                  *)
C2_LenIsInsertCount ==
    /\ \A i \in BagIds : ~LenOf(i).panic /\ LenOf(i).val = TotalPuts(i)
    /\ ret.op = "len" => ret.val = TotalPuts(ret.bag)

\* len() was called on a bag holding duplicates: it returned 3 for 2 keys
C2_Witness ==
    /\ ret.op = "len"
    /\ ret.val = 3
    /\ Cardinality(DOMAIN bags[ret.bag]) = 2

(* C3: every stored key has a count greater than zero, and frequency() /   *)
(* iter() yields, in whatever order, exactly one pair (e, c) per stored    *)
(* key, with c = occurrence(e) > 0.                                        *)
C3_StoredCountsPositive ==
    \A i \in BagIds :
        /\ \A k \in DOMAIN bags[i] : bags[i][k] > 0
        /\ \A o \in Orders(DOMAIN bags[i]) :
              LET f == Freq(i, o)
              IN  /\ Len(f) = Cardinality(DOMAIN bags[i])
                  /\ \A k \in DOMAIN bags[i] :
                        Cardinality({j \in 1..Len(f) : f[j][1] = k}) = 1
                  /\ \A j \in 1..Len(f) :
                        /\ f[j][2] = Occ(i, f[j][1])
                        /\ Occ(i, f[j][1]) > 0
                        /\ f[j][1] \in DOMAIN bags[i]

\* frequency()/iter() was called on a bag of two keys, one of them repeated
C3_Witness ==
    /\ ret.op \in {"frequency", "iter"}
    /\ Len(ret.val) = 2
    /\ \E j \in 1..Len(ret.val) : ret.val[j][2] = 2

RECURSIVE SumOcc(_, _, _)
SumOcc(i, d, j) == IF j > Len(d) THEN 0 ELSE Occ(i, d[j]) + SumOcc(i, d, j + 1)

(* C4: the occurrences of the elements distinct() yields sum to len().     *)
C4_OccurrencesSumToLen ==
    \A i \in BagIds : \A o \in Orders(DOMAIN bags[i]) :
        SumOcc(i, Dist(i, o), 1) = LenOf(i).val

\* distinct() was called on a bag with fewer keys than elements
C4_Witness ==
    /\ ret.op = "distinct"
    /\ Len(ret.val) = 2
    /\ LenOf(ret.bag).val = 3

(* C5: occurrence(e) of an e never inserted is 0, on the fresh bag and on  *)
(* every later one; the call does not panic, creates no entry for e and    *)
(* leaves the mapping as it was.                                           *)
C5_AbsentOccurrenceIsZero ==
    [][/\ \A i \in BagIds, e \in Elems : puts[i][e] = 0 => Occ(i, e) = 0
       /\ \A i \in BagIds, e \in Elems : puts'[i][e] = 0 => Occ(i, e)' = 0
       /\ ret'.op = "occurrence" =>
             /\ bags' = bags
             /\ ~panicked'
             /\ puts[ret'.bag][ret'.arg] = 0 =>
                   (ret'.val = 0 /\ ret'.arg \notin DOMAIN bags'[ret'.bag])]_vars

\* occurrence(e) was called on a non-empty bag for an e never inserted
C5_Witness ==
    /\ ret.op = "occurrence"
    /\ puts[ret.bag][ret.arg] = 0
    /\ ret.val = 0
    /\ DOMAIN bags[ret.bag] # {}

(* C6: two bags that received the same elements the same number of times,  *)
(* in whatever order, compare equal; two bags in which some element has    *)
(* different occurrences (present in one and absent in the other           *)
(* included) compare not equal.                                            *)
C6_EqualityIsStructural ==
    /\ \A i, j \in BagIds :
          /\ puts[i] = puts[j] => Equal(i, j)
          /\ (\E e \in Elems : Occ(i, e) # Occ(j, e)) => ~Equal(i, j)
    /\ ret.op = "eq" =>
          /\ puts[ret.bag] = puts[ret.arg] => ret.val
          /\ (\E e \in Elems : Occ(ret.bag, e) # Occ(ret.arg, e)) => ~ret.val

\* two different bags, each with the same three elements put, compared equal
C6_Witness ==
    /\ ret.op = "eq"
    /\ ret.bag # ret.arg
    /\ ret.val = TRUE
    /\ calls[ret.bag] = 3
    /\ Cardinality(DOMAIN bags[ret.bag]) = 2

IsEmptyOf(i) == is_empty(bags[i], overflow_checks)

(* C8: is_empty() is true iff len() is 0, iff the mapping has no entries,  *)
(* iff no put was made since new(): it is false after the first put and    *)
(* in every state after it; every is_empty() call returned that.           *)
C8_IsEmptyIffNoInsert ==
    variant = "lib" =>
        /\ \A i \in BagIds :
              /\ ~IsEmptyOf(i).panic
              /\ IsEmptyOf(i).val <=> (LenOf(i).val = 0)
              /\ IsEmptyOf(i).val <=> (DOMAIN bags[i] = {})
              /\ IsEmptyOf(i).val <=> (calls[i] = 0)
        /\ ret.op = "is_empty" => (ret.val <=> (calls[ret.bag] = 0))

\* is_empty() was called after a put and returned false
C8_Witness ==
    /\ ret.op = "is_empty"
    /\ ret.val = FALSE
    /\ calls[ret.bag] = 1

(* C10: a put(e) / insert(e) leaves the occurrence of every other element  *)
(* and the other bag as they were; every step either leaves a bag's        *)
(* mapping as it was or removes no key of it and decreases no element's    *)
(* occurrence nor its len().                                               *)
C10_InsertChangesOnlyItsEntry ==
    [][/\ \A i \in BagIds, e \in Elems :
            IsInsertOf(i, e) =>
               /\ \A f \in Elems \ {e} : Occ(i, f)' = Occ(i, f)
               /\ \A j \in BagIds \ {i} : bags'[j] = bags[j]
       /\ \A i \in BagIds :
            \/ bags'[i] = bags[i]
            \/ /\ DOMAIN bags[i] \subseteq DOMAIN bags'[i]
               /\ \A e \in Elems : Occ(i, e)' >= Occ(i, e)
               /\ LenOf(i)'.val >= LenOf(i).val]_vars

\* a put/insert has acted on a bag that already held another element
C10_Witness ==
    /\ ret.op \in InsertOps
    /\ puts[ret.bag][ret.arg] = 1
    /\ Cardinality(DOMAIN bags[ret.bag]) = 3

AllBigramElems == BigramElems \cup {Abracadabra[j] : j \in 1..Len(Abracadabra)}

\* the number of indices j with s[j] = x and s[j+1] = y
AdjacentCount(s, x, y) ==
    Cardinality({j \in 1..(Len(s) - 1) : s[j] = x /\ s[j + 1] = y})

(* C7: bigram! over a sequence s of n items returns a bag of pairs in      *)
(* which occurrence((x, y)) is the number of indices i with s[i] = x and   *)
(* s[i+1] = y; its len() is n - 1 when n >= 2 and it is empty when n < 2;  *)
(* over a,b,r,a,c,a,d,a,b,r,a the len() is 10 and (a,b) occurs twice.      *)
C7_BigramCountsAdjacentPairs ==
    pc = "done" =>
        /\ \A x, y \in AllBigramElems :
              bag_occurrence(bigram_bag, <<x, y>>) = AdjacentCount(vec, x, y)
        /\ ~bag_len(bigram_bag, overflow_checks).panic
        /\ Len(vec) >= 2 => bag_len(bigram_bag, overflow_checks).val = Len(vec) - 1
        /\ Len(vec) < 2 =>
              (DOMAIN bigram_bag = {} /\ bag_len(bigram_bag, overflow_checks).val = 0)
        /\ vec = Abracadabra =>
              /\ bag_len(bigram_bag, overflow_checks).val = 10
              /\ bag_occurrence(bigram_bag, <<"a", "b">>) = 2

\* bigram! has returned the bag of the ten pairs of a,b,r,a,c,a,d,a,b,r,a
C7_Witness ==
    /\ pc = "done"
    /\ vec = Abracadabra
    /\ win = 11
    /\ bag_occurrence(bigram_bag, <<"a", "b">>) = 2

(* C9: as long as no element has been put more than 2^w - 1 times (every   *)
(* element's count is representable), no call panics, len() returns the    *)
(* exact number of elements put, is_empty() is true only of the bag        *)
(* nothing was put into, and occurrence(e) is the number of puts of e.     *)
C9_OnlyCounterOverflowFails ==
    (\A e \in Elems : puts[1][e] <= USIZE_MAX) =>
        /\ ~panicked
        /\ ret.op = "len" => ret.val = TotalPuts(1)
        /\ ret.op = "is_empty" => (ret.val <=> (TotalPuts(1) = 0))
        /\ ret.op = "occurrence" => ret.val = puts[1][ret.arg]

\* What does hold: while the number of elements put, and not only each
\* element's count, is at most 2^w - 1, no call has panicked and every
\* len(), is_empty() and occurrence() returned the exact answer.
ExactWhileTotalRepresentable ==
    TotalPuts(1) <= USIZE_MAX =>
        /\ ~panicked
        /\ ret.op = "len" => ret.val = TotalPuts(1)
        /\ ret.op = "is_empty" => (ret.val <=> (TotalPuts(1) = 0))
        /\ ret.op = "occurrence" => ret.val = puts[1][ret.arg]

====
